---- MODULE Spec2Model ----
(***************************************************************************)
(* A model of the three command-line scripts of Neurotoolbox               *)
(* (scripts/run_asymmetry.py, scripts/run_followups.py,                    *)
(* scripts/run_multivariate.py) and of the library contracts they drive.   *)
(* The scripts are translated from their source.  The neurotoolbox         *)
(* library functions they import are translated from the contracts of      *)
(* spec.md section 4.                                                     *)
(*                                                                         *)
(* Conventions.  A possibly-missing value (NaN / None) is a sequence of    *)
(* length at most one: NA == << >> is the missing value, Some(v) == <<v>>  *)
(* a present one.  A Python str is a sequence of one-character strings.    *)
(* A p-value is an integer numerator over PScale; alpha is a pair          *)
(* <<numerator, denominator>>.                                             *)
(***************************************************************************)
EXTENDS Integers, Sequences, FiniteSets, TLC

VARIABLES
    pc,             \* position of main() in the script that is running
    log,            \* the records written through log.info / log.error
    \* ---- run_asymmetry.py, step 1
    a_args,         \* args.roi_pairs and args.composite
    a_df,           \* the dataset: column name -> row -> value
    roi_pairs,      \* parse_roi_pairs(args.roi_pairs)
    ai_df,          \* ai_res.ai_df: the sequence of asymmetry columns
    \* ---- run_asymmetry.py, step 3
    r_args,         \* args.outcomes and args.alpha
    asym_vars,      \* list(ai_res.ai_df.columns)
    dev_cols,       \* the deviation columns collected in step 2
    predictor_sets, \* the dict handed to run_family, in insertion order
    summary,        \* the regression summary table, one record per row
    \* ---- run_asymmetry.py, line 80, run on a table and on a variant of it
    c_in,           \* the table run_family returned and args.alpha
    c_out,          \* add_corrections of c_in
    c_alt,          \* the variant: its rows and the group whose p-values changed
    c_alt_out,      \* add_corrections of the variant
    \* ---- run_followups.py
    f_args,         \* whether --group was given
    f_df,           \* the dataset: one record of x, y and group per row
    use,            \* the rows kept by line 33, as row numbers of the dataset
    f_xy,           \* the vectors x and y handed to the battery
    f_res,          \* what the four battery functions returned
    f_files,        \* the files written
    \* ---- run_multivariate.py, lines 19-57
    m_args,         \* args.residualize, whether args.covars is non-empty, --do-cca
    m_df,           \* the dataset: per row, which column blocks have all values
    roi_idx,        \* roi_df.index
    items_idx,      \* items_df.index
    pls_out,        \* what run_pls returned
    \* ---- run_multivariate.py, lines 59-73
    n_rois,         \* the columns of roi_df, the measurements
    n_pvals,        \* the p-value of the correlation of each pair of measurements
    n_alpha,        \* the alpha fdr_edges uses when none is passed
    n_edges,        \* the edge records of fdr_edges(R)
    n_graph,        \* the graph G
    n_metrics       \* node_metrics(G) and global_metrics(G)

asymVars == <<a_args, a_df, roi_pairs, ai_df>>
regVars == <<r_args, asym_vars, dev_cols, predictor_sets, summary>>
corrVars == <<c_in, c_out, c_alt, c_alt_out>>
folVars == <<f_args, f_df, use, f_xy, f_res, f_files>>
mvVars == <<m_args, m_df, roi_idx, items_idx, pls_out>>
netVars == <<n_rois, n_pvals, n_alpha, n_edges, n_graph, n_metrics>>
vars == <<pc, log, asymVars, regVars, corrVars, folVars, mvVars, netVars>>

----------------------------------------------------------------------------
(* Missing values *)

NA == << >>
Some(v) == <<v>>
IsNA(o) == o = NA
Val(o) == o[1]

(* Bounds *)
MaxPairs == 2       \* entries given to --roi-pairs
NRows == 1          \* rows of the dataset of run_asymmetry
MaxVal == 1         \* ROI measurements range over -MaxVal..MaxVal
MaxPreds == 3       \* asymmetry columns entering the regressions
MaxRecords == 6     \* rows of the regression summary
PScale == 4         \* p-values are the multiples of 1/PScale
MaxFolRows == 3     \* rows of the dataset of run_followups
MaxMvRows == 3      \* rows of the dataset of run_multivariate
MaxRois == 3        \* columns given to --rois

----------------------------------------------------------------------------
(* Sequence helpers *)

RECURSIVE SeqsUpTo(_, _)
SeqsUpTo(S, n) ==
    IF n = 0 THEN {<< >>}
    ELSE LET shorter == SeqsUpTo(S, n - 1)
         IN  shorter \cup {Append(s, e) : s \in {t \in shorter : Len(t) = n - 1}, e \in S}

Range(s) == {s[i] : i \in 1..Len(s)}

Contains(s, e) == \E i \in 1..Len(s) : s[i] = e

----------------------------------------------------------------------------
(* run_asymmetry.py: parse_roi_pairs *)

\* p.split(":", 1): the text before and after the first colon
FirstColon(p) == CHOOSE i \in 1..Len(p) : p[i] = ":" /\ \A j \in 1..(i - 1) : p[j] # ":"
SplitOnce(p) ==
    LET i == FirstColon(p)
    IN  <<SubSeq(p, 1, i - 1), SubSeq(p, i + 1, Len(p))>>

RECURSIVE parse_roi_pairs(_)
parse_roi_pairs(pairs) ==
    IF pairs = << >> THEN << >>
    ELSE LET p == Head(pairs)
             rest == parse_roi_pairs(Tail(pairs))
         IN  IF Contains(p, ":") THEN <<SplitOnce(p)>> \o rest ELSE rest

----------------------------------------------------------------------------
(* neurotoolbox.asymmetry.compute_ai, method "halfnorm" *)

\* a rational number num/den, den # 0
Rat(n, d) == [num |-> n, den |-> d]
RatAdd(a, b) == Rat(a.num * b.den + b.num * a.den, a.den * b.den)
RatEq(a, b) == a.num * b.den = b.num * a.den

\* denom = (L + R) / 2, kept as twice its value's numerator over 2
HalfSumTimes2(l, r) == l + r

\* the quotient taken without looking at the denominator
AiValue_NoZeroCheck(l, r) ==
    IF IsNA(l) \/ IsNA(r) THEN NA
    ELSE Some(Rat(2 * (Val(l) - Val(r)), HalfSumTimes2(Val(l), Val(r))))

\* one row of one pair: (L - R) / ((L + R) / 2), missing when a side is
\* missing or the denominator is zero
AiValue(l, r) ==
    IF IsNA(l) \/ IsNA(r) THEN NA
    ELSE IF HalfSumTimes2(Val(l), Val(r)) = 0 THEN NA
    ELSE Some(Rat(2 * (Val(l) - Val(r)), HalfSumTimes2(Val(l), Val(r))))

AiLabel(pair) == <<"AI_">> \o pair[1] \o <<"_">> \o pair[2]

AiColumn(df, pair) ==
    [name |-> AiLabel(pair),
     vals |-> [i \in 1..NRows |-> AiValue(df[pair[1]][i], df[pair[2]][i])]]

\* the pair columns, one per distinct pair label, in order of first occurrence
RECURSIVE AiColumns(_, _, _)
AiColumns(df, pairs, seen) ==
    IF pairs = << >> THEN << >>
    ELSE IF AiLabel(Head(pairs)) \in seen THEN AiColumns(df, Tail(pairs), seen)
    ELSE <<AiColumn(df, Head(pairs))>>
         \o AiColumns(df, Tail(pairs), seen \cup {AiLabel(Head(pairs))})

\* the mean of the present values of a row, missing when none is present
RECURSIVE RatSum(_)
RatSum(s) == IF s = << >> THEN Rat(0, 1) ELSE RatAdd(Val(Head(s)), RatSum(Tail(s)))

RowMean(cells) ==
    LET present == SelectSeq(cells, LAMBDA c : ~IsNA(c))
    IN  IF present = << >> THEN NA
        ELSE LET s == RatSum(present) IN Some(Rat(s.num, s.den * Len(present)))

CompositeColumn(cols) ==
    [name |-> <<"AI_composite">>,
     vals |-> [i \in 1..NRows |-> RowMean([k \in 1..Len(cols) |-> cols[k].vals[i]])]]

PairColumnsExist(df, pairs) ==
    \A k \in 1..Len(pairs) : pairs[k][1] \in DOMAIN df /\ pairs[k][2] \in DOMAIN df

compute_ai(df, pairs, composite) ==
    LET cols == AiColumns(df, pairs, {})
    IN  IF composite THEN Append(cols, CompositeColumn(cols)) ELSE cols

----------------------------------------------------------------------------
(* run_asymmetry.py main(), step 1: lines 47-52 *)

RoiPairArgs ==
    { <<"a", ":", "b">>, <<"b", ":", "a">>, <<"a", ":", "a">>,
      <<"a", "b">>, <<"a", ":", "b", ":", "a">> }

RoiColumns == { <<"a">>, <<"b">> }

Measurements == {NA} \cup {Some(v) : v \in (0 - MaxVal)..MaxVal}

RegIdle ==
    /\ r_args = << >>
    /\ asym_vars = << >>
    /\ dev_cols = << >>
    /\ predictor_sets = << >>
    /\ summary = << >>

MvIdle ==
    /\ m_args = << >>
    /\ m_df = << >>
    /\ roi_idx = << >>
    /\ items_idx = << >>
    /\ pls_out = << >>

NetIdle ==
    /\ n_rois = << >>
    /\ n_pvals = << >>
    /\ n_alpha = << >>
    /\ n_edges = << >>
    /\ n_graph = << >>
    /\ n_metrics = << >>

FolIdle ==
    /\ f_args = << >>
    /\ f_df = << >>
    /\ use = << >>
    /\ f_xy = << >>
    /\ f_res = << >>
    /\ f_files = {}

CorrIdle ==
    /\ c_in = << >>
    /\ c_out = << >>
    /\ c_alt = << >>
    /\ c_alt_out = << >>

AsymIdle ==
    /\ a_args = << >>
    /\ a_df = << >>
    /\ roi_pairs = << >>
    /\ ai_df = << >>

InitAsymmetry ==
    /\ pc = "asym_parse"
    /\ log = << >>
    /\ a_args \in [roi_pairs : SeqsUpTo(RoiPairArgs, MaxPairs) \ {<< >>},
                   composite : BOOLEAN]
    /\ a_df \in [RoiColumns -> [1..NRows -> Measurements]]
    /\ roi_pairs = << >>
    /\ ai_df = << >>
    /\ RegIdle
    /\ CorrIdle
    /\ FolIdle
    /\ MvIdle
    /\ NetIdle

\* lines 48-49
ParseRoiPairs ==
    /\ pc = "asym_parse"
    /\ roi_pairs' = parse_roi_pairs(a_args.roi_pairs)
    /\ log' = Append(log, <<"info", "Computing asymmetry", Len(roi_pairs')>>)
    /\ pc' = "asym_compute"
    /\ UNCHANGED <<a_args, a_df, ai_df, regVars, corrVars, folVars, mvVars, netVars>>

\* line 50; a pair naming a column the dataset lacks is an input shape error
ComputeAi ==
    /\ pc = "asym_compute"
    /\ IF PairColumnsExist(a_df, roi_pairs)
       THEN /\ ai_df' = compute_ai(a_df, roi_pairs, a_args.composite)
            /\ pc' = "asym_copy"
       ELSE /\ ai_df' = ai_df
            /\ pc' = "raised"
    /\ UNCHANGED <<log, a_args, a_df, roi_pairs, regVars, corrVars, folVars, mvVars, netVars>>

\* lines 51-52
CopyAiColumns ==
    /\ pc = "asym_copy"
    /\ a_df' = [c \in DOMAIN a_df \cup {ai_df[k].name : k \in 1..Len(ai_df)} |->
                  IF \E k \in 1..Len(ai_df) : ai_df[k].name = c
                  THEN (CHOOSE col \in Range(ai_df) : col.name = c).vals
                  ELSE a_df[c]]
    /\ pc' = "asym_done"
    /\ UNCHANGED <<log, a_args, roi_pairs, ai_df, regVars, corrVars, folVars, mvVars, netVars>>

NextAsymmetry == ParseRoiPairs \/ ComputeAi \/ CopyAiColumns

SpecAsymmetry == InitAsymmetry /\ [][NextAsymmetry]_vars

----------------------------------------------------------------------------
(* Properties of the asymmetry columns *)

AiColumnOf(pair) == CHOOSE col \in Range(ai_df) : col.name = AiLabel(pair)

\* C5: for every ROI pair (L, R) and every row, the asymmetry value is missing
\* exactly when L is missing, R is missing or L + R, twice the normalization
\* denominator, is zero; otherwise it is a quotient with a nonzero denominator,
\* and computing the column never fails.
C5_MissingIffSideMissingOrZeroDenom ==
    /\ pc \in {"asym_copy", "asym_done"} =>
         \A k \in 1..Len(roi_pairs) : \A i \in 1..NRows :
            LET l == a_df[roi_pairs[k][1]][i]
                r == a_df[roi_pairs[k][2]][i]
                ai == AiColumnOf(roi_pairs[k]).vals[i]
            IN  /\ IsNA(ai) <=> (IsNA(l) \/ IsNA(r) \/ Val(l) + Val(r) = 0)
                /\ ~IsNA(ai) => Val(ai).den # 0
    /\ pc = "raised" => ~PairColumnsExist(a_df, roi_pairs)

\* a row with both sides present and nonzero whose denominator is zero, and a
\* row of another pair with a defined value
C5_Witness ==
    /\ pc = "asym_done"
    /\ \E k \in 1..Len(roi_pairs) : \E i \in 1..NRows :
         /\ ~IsNA(a_df[roi_pairs[k][1]][i])
         /\ ~IsNA(a_df[roi_pairs[k][2]][i])
         /\ Val(a_df[roi_pairs[k][1]][i]) # 0
         /\ Val(a_df[roi_pairs[k][1]][i]) + Val(a_df[roi_pairs[k][2]][i]) = 0
         /\ IsNA(AiColumnOf(roi_pairs[k]).vals[i])
    /\ \E k \in 1..Len(roi_pairs) : \E i \in 1..NRows :
         ~IsNA(AiColumnOf(roi_pairs[k]).vals[i])

----------------------------------------------------------------------------
(* neurotoolbox.regression.run_family *)

\* every (outcome, family, predictor) combination, in loop order
RECURSIVE FamilyCombos(_, _)
FamilyCombos(outcome, sets) ==
    IF sets = << >> THEN << >>
    ELSE [k \in 1..Len(Head(sets).preds) |->
            [Outcome |-> outcome, Model |-> Head(sets).name, Target |-> Head(sets).preds[k]]]
         \o FamilyCombos(outcome, Tail(sets))

RECURSIVE Combos(_, _)
Combos(outcomes, sets) ==
    IF outcomes = << >> THEN << >>
    ELSE FamilyCombos(Head(outcomes), sets) \o Combos(Tail(outcomes), sets)

\* the record of one fit; a failed fit has fit = NA and its statistics missing.
\* Beta, CI_low, CI_high and n are missing exactly when p is and are left out.
FitRecord(combo, fit) ==
    [Outcome |-> combo.Outcome, Model |-> combo.Model, Target |-> combo.Target, p |-> fit]

\* one pass of the loop body: the fit of the next combination joins the batch
RunFamilyStep(records, combo, fit) == Append(records, FitRecord(combo, fit))

----------------------------------------------------------------------------
(* neurotoolbox.regression.add_corrections: Benjamini-Hochberg per group *)

RatLeq(a, b) == a.num * b.den <= b.num * a.den
RatMin(a, b) == IF RatLeq(a, b) THEN a ELSE b

SameGroup(r1, r2, group_cols) == \A c \in group_cols : r1[c] = r2[c]

\* the rows of the partition of row i that enter the correction
GroupRows(records, i, group_cols) ==
    {j \in 1..Len(records) :
        SameGroup(records[i], records[j], group_cols) /\ ~IsNA(records[j].p)}

\* the rank of row i after a stable ascending sort of its partition
RankOf(records, i, G) ==
    1 + Cardinality({j \in G : \/ Val(records[j].p) < Val(records[i].p)
                               \/ (Val(records[j].p) = Val(records[i].p) /\ j < i)})

\* the rank of every row from row i on, 0 for a row without a p-value
RECURSIVE RanksFrom(_, _, _)
RanksFrom(records, i, group_cols) ==
    IF i > Len(records) THEN << >>
    ELSE <<IF IsNA(records[i].p) THEN 0
           ELSE RankOf(records, i, GroupRows(records, i, group_cols))>>
         \o RanksFrom(records, i + 1, group_cols)

\* p <= (rank / m) * alpha
BelowLine(p, rank, m, alpha) == p * m * alpha[2] <= rank * alpha[1] * PScale

\* the largest rank satisfying the criterion, 0 when none does
LargestRank(records, ranks, G, alpha) ==
    LET m == Cardinality(G)
        ok == {ranks[l] : l \in {j \in G : BelowLine(Val(records[j].p), ranks[j], m, alpha)}}
    IN  IF ok = {} THEN 0 ELSE CHOOSE k \in ok : \A l \in ok : l <= k

\* m * p / rank
RawQ(p, rank, m) == Rat(m * p, rank * PScale)

RECURSIVE RatMinOver(_)
RatMinOver(S) ==
    IF S = {} THEN Rat(1, 1)
    ELSE LET x == CHOOSE y \in S : TRUE IN RatMin(x, RatMinOver(S \ {x}))

\* m * p / rank of the row itself, at most 1: no minimum over the later ranks
QValue_NoCumulativeMin(records, ranks, i, G) ==
    RatMin(Rat(1, 1), RawQ(Val(records[i].p), ranks[i], Cardinality(G)))

\* the q-value: the smallest m * p / rank over the rows ranked at or after
\* row i, at most 1
QValue(records, ranks, i, G) ==
    LET m == Cardinality(G)
    IN  RatMinOver({RawQ(Val(records[j].p), ranks[j], m) : j \in {l \in G : ranks[l] >= ranks[i]}})

CorrectedRow(records, ranks, i, group_cols, alpha) ==
    LET G == GroupRows(records, i, group_cols)
        rec == records[i]
    IN  [Outcome |-> rec.Outcome, Model |-> rec.Model, Target |-> rec.Target, p |-> rec.p,
         q |-> IF IsNA(rec.p) THEN NA ELSE Some(QValue(records, ranks, i, G)),
         reject |-> IF IsNA(rec.p) THEN NA
                    ELSE Some(ranks[i] <= LargestRank(records, ranks, G, alpha))]

add_corrections(records, group_cols, alpha) ==
    LET ranks == RanksFrom(records, 1, group_cols)
    IN  [i \in 1..Len(records) |-> CorrectedRow(records, ranks, i, group_cols, alpha)]

----------------------------------------------------------------------------
(* run_asymmetry.py main(), step 3: lines 69-81 *)

OutcomeLists == {<<"y1">>, <<"y1", "y2">>}
AsymNames == [k \in 1..MaxPreds |-> <<"AI", k>>]
DevNames == << <<"dev", 1>> >>
Alphas == {<<1, 20>>, <<1, 2>>}
PValues == {0, PScale \div 2, PScale - 1}
FitResults == {NA} \cup {Some(p) : p \in PValues}

\* grouping by the outcome alone
GroupCols_OutcomeOnly == {"Outcome"}

\* line 80: the columns the corrections are grouped by
GroupCols == {"Outcome", "Model"}

\* the deviation family filled with the asymmetry columns
BuildPredictorSets_DevFromAsym(asym, dev) ==
    (IF asym # << >> THEN <<[name |-> "Asymmetry", preds |-> asym]>> ELSE << >>)
    \o (IF dev # << >> THEN <<[name |-> "Deviation", preds |-> asym]>> ELSE << >>)

\* lines 71-75
BuildPredictorSets(asym, dev) ==
    (IF asym # << >> THEN <<[name |-> "Asymmetry", preds |-> asym]>> ELSE << >>)
    \o (IF dev # << >> THEN <<[name |-> "Deviation", preds |-> dev]>> ELSE << >>)

InitRegression ==
    /\ pc = "reg_sets"
    /\ log = << >>
    /\ AsymIdle
    /\ r_args \in [outcomes : OutcomeLists, alpha : Alphas]
    /\ asym_vars \in {SubSeq(AsymNames, 1, n) : n \in 0..MaxPreds}
    /\ dev_cols \in {SubSeq(DevNames, 1, n) : n \in 0..Len(DevNames)}
    /\ Len(r_args.outcomes) * (Len(asym_vars) + Len(dev_cols)) <= MaxRecords
    /\ predictor_sets = << >>
    /\ summary = << >>
    /\ CorrIdle
    /\ FolIdle
    /\ MvIdle
    /\ NetIdle

\* lines 70-77
PredictorSets ==
    /\ pc = "reg_sets"
    /\ predictor_sets' = BuildPredictorSets(asym_vars, dev_cols)
    /\ log' = Append(log, <<"info", "Running regression families", r_args.outcomes>>)
    /\ pc' = "reg_family"
    /\ UNCHANGED <<r_args, asym_vars, dev_cols, summary, asymVars, corrVars, folVars, mvVars, netVars>>

\* line 78, inside run_family: the next combination is fitted; the fit either
\* yields a p-value or fails
RunFamilyFit ==
    /\ pc = "reg_family"
    /\ Len(summary) < Len(Combos(r_args.outcomes, predictor_sets))
    /\ \E fit \in FitResults :
         summary' = RunFamilyStep(summary,
                                  Combos(r_args.outcomes, predictor_sets)[Len(summary) + 1], fit)
    /\ UNCHANGED <<pc, log, r_args, asym_vars, dev_cols, predictor_sets, asymVars, corrVars, folVars, mvVars, netVars>>

\* lines 78-81: run_family returns and the corrections are added
AddCorrections ==
    /\ pc = "reg_family"
    /\ Len(summary) = Len(Combos(r_args.outcomes, predictor_sets))
    /\ summary' = add_corrections(summary, GroupCols, r_args.alpha)
    /\ pc' = "reg_done"
    /\ UNCHANGED <<log, r_args, asym_vars, dev_cols, predictor_sets, asymVars, corrVars, folVars, mvVars, netVars>>

NextRegression == PredictorSets \/ RunFamilyFit \/ AddCorrections

SpecRegression == InitRegression /\ [][NextRegression]_vars

----------------------------------------------------------------------------
(* run_asymmetry.py line 80 on two tables: a table run_family can return, and
   the same table with two neighbouring rows exchanged or with the p-value of
   one row replaced *)

TableFits == {NA, Some(PScale \div 2), Some(PScale - 1)}

\* the tables run_family returns for the predictor sets of lines 70-75
FamilyTables(outcomes, asym, dev) ==
    LET combos == Combos(outcomes, BuildPredictorSets(asym, dev))
    IN  {[k \in 1..Len(combos) |-> FitRecord(combos[k], fits[k])] :
            fits \in [1..Len(combos) -> TableFits]}

SwapRows(rows, i, j) ==
    [k \in 1..Len(rows) |-> IF k = i THEN rows[j] ELSE IF k = j THEN rows[i] ELSE rows[k]]

SetP(rows, k, fit) == [rows EXCEPT ![k] = FitRecord(rows[k], fit)]

InitCorrections ==
    /\ pc = "corr_first"
    /\ log = << >>
    /\ AsymIdle
    /\ RegIdle
    /\ FolIdle
    /\ MvIdle
    /\ NetIdle
    /\ \E outcomes \in OutcomeLists, n \in 0..MaxPreds, d \in 0..Len(DevNames) :
         /\ Len(outcomes) * (n + d) <= MaxRecords
         /\ c_in \in [rows : FamilyTables(outcomes, SubSeq(AsymNames, 1, n), SubSeq(DevNames, 1, d)),
                   alpha : Alphas]
    /\ c_out = << >>
    /\ c_alt = << >>
    /\ c_alt_out = << >>

\* line 80 on the table
CorrectTable ==
    /\ pc = "corr_first"
    /\ c_out' = add_corrections(c_in.rows, GroupCols, c_in.alpha)
    /\ pc' = "corr_second"
    /\ UNCHANGED <<log, c_in, c_alt, c_alt_out, asymVars, regVars, folVars, mvVars, netVars>>

\* line 80 on the table with two neighbouring rows exchanged
CorrectPermuted ==
    /\ pc = "corr_second"
    /\ \E i \in 1..(Len(c_in.rows) - 1) :
         c_alt' = [rows |-> SwapRows(c_in.rows, i, i + 1), changed |-> {}]
    /\ c_alt_out' = add_corrections(c_alt'.rows, GroupCols, c_in.alpha)
    /\ pc' = "corr_done"
    /\ UNCHANGED <<log, c_in, c_out, asymVars, regVars, folVars, mvVars, netVars>>

\* line 80 on the table with the p-value of row k replaced
CorrectChanged ==
    /\ pc = "corr_second"
    /\ \E k \in 1..Len(c_in.rows) : \E fit \in TableFits :
         /\ fit # c_in.rows[k].p
         /\ c_alt' = [rows |-> SetP(c_in.rows, k, fit),
                      changed |-> {<<c_in.rows[k].Outcome, c_in.rows[k].Model>>}]
    /\ c_alt_out' = add_corrections(c_alt'.rows, GroupCols, c_in.alpha)
    /\ pc' = "corr_done"
    /\ UNCHANGED <<log, c_in, c_out, asymVars, regVars, folVars, mvVars, netVars>>

NextCorrections == CorrectTable \/ CorrectPermuted \/ CorrectChanged

SpecCorrections == InitCorrections /\ [][NextCorrections]_vars

SameRecord(r1, r2) ==
    r1.Outcome = r2.Outcome /\ r1.Model = r2.Model /\ r1.Target = r2.Target

SameCorrectedFields(r1, r2) ==
    /\ r1.reject = r2.reject
    /\ IsNA(r1.q) <=> IsNA(r2.q)
    /\ ~IsNA(r1.q) => RatEq(Val(r1.q), Val(r2.q))

\* C2: the q-value and reject flag of a record depend only on the p-values of
\* its own (Outcome, Model) group: exchanging two rows of the table, or
\* replacing the p-value of a record of another group, leaves them unchanged.
C2_GroupsIndependent ==
    pc = "corr_done" =>
        \A i, j \in 1..Len(c_out) :
            (/\ SameRecord(c_out[i], c_alt_out[j])
             /\ <<c_out[i].Outcome, c_out[i].Model>> \notin c_alt.changed)
            => SameCorrectedFields(c_out[i], c_alt_out[j])

\* a changed p-value in another model of the same outcome, and an exchange of
\* two rows of one group with different p-values, beside a corrected record
C2_Witness ==
    /\ pc = "corr_done"
    /\ \E i, j \in 1..Len(c_out) :
         /\ ~IsNA(c_out[i].q)
         /\ c_out[i].Outcome = c_out[j].Outcome
         /\ \/ /\ <<c_out[j].Outcome, c_out[j].Model>> \in c_alt.changed
               /\ c_out[i].Model # c_out[j].Model
            \/ /\ c_alt.changed = {}
               /\ i # j
               /\ c_out[i].Model = c_out[j].Model
               /\ c_out[i].p # c_out[j].p
               /\ SameRecord(c_out[i], c_alt_out[j])

----------------------------------------------------------------------------
(* Properties of the regression summary *)

\* the rows of the (Outcome, Model) group of row i that have a p-value
OutcomeModelGroup(i) ==
    {j \in 1..Len(summary) : /\ summary[j].Outcome = summary[i].Outcome
                             /\ summary[j].Model = summary[i].Model
                             /\ ~IsNA(summary[j].p)}

\* the p-values of the rows G of the summary in ascending order
RECURSIVE SortedP(_)
SortedP(G) ==
    IF G = {} THEN << >>
    ELSE LET lo == CHOOSE j \in G : \A l \in G : Val(summary[j].p) <= Val(summary[l].p)
         IN  <<Val(summary[lo].p)>> \o SortedP(G \ {lo})

\* k*: the largest rank k of the sorted p-values s with s[k] <= (k/m) * alpha
KStar(s, alpha) ==
    LET ok == {k \in 1..Len(s) : s[k] * Len(s) * alpha[2] <= k * alpha[1] * PScale}
    IN  IF ok = {} THEN 0 ELSE CHOOSE k \in ok : \A l \in ok : l <= k

\* C1: two rows of one (Outcome, Model) group with p-values p1 < p2 have
\* q-values q1 <= q2.
C1_QMonotone ==
    pc = "reg_done" =>
        \A i, j \in 1..Len(summary) :
            (/\ j \in OutcomeModelGroup(i)
             /\ ~IsNA(summary[i].p)
             /\ Val(summary[i].p) < Val(summary[j].p))
            => RatLeq(Val(summary[i].q), Val(summary[j].q))

\* a group in which the smaller p-value has the larger m*p/rank
C1_Witness ==
    /\ pc = "reg_done"
    /\ \E i, j \in 1..Len(summary) :
         /\ j \in OutcomeModelGroup(i)
         /\ ~IsNA(summary[i].p)
         /\ 0 < Val(summary[i].p)
         /\ Val(summary[i].p) < Val(summary[j].p)
         /\ 2 * Val(summary[i].p) > Val(summary[j].p)
         /\ Cardinality(OutcomeModelGroup(i)) = 2
         /\ RatEq(Val(summary[i].q), Val(summary[j].q))

\* C3: in a group of m rows with p-values, a row is marked significant exactly
\* when its rank among the ascending p-values is at most k*, the largest rank
\* k whose p-value is at most (k/m)*alpha; with no such rank no row is marked.
C3_RejectIffRankAtMostKStar ==
    pc = "reg_done" =>
        \A i \in 1..Len(summary) :
            ~IsNA(summary[i].p) =>
                LET s == SortedP(OutcomeModelGroup(i))
                    kstar == KStar(s, r_args.alpha)
                IN  /\ ~IsNA(summary[i].reject)
                    /\ Val(summary[i].reject)
                         <=> \E k \in 1..kstar : s[k] = Val(summary[i].p)

\* a row marked significant although its own p-value is above its own line,
\* beside a group in which no rank satisfies the criterion
C3_Witness ==
    /\ pc = "reg_done"
    /\ \E i \in 1..Len(summary) :
         /\ ~IsNA(summary[i].p)
         /\ Val(summary[i].reject)
         /\ LET s == SortedP(OutcomeModelGroup(i))
            IN  \E k \in 1..Len(s) :
                  /\ s[k] = Val(summary[i].p)
                  /\ ~(s[k] * Len(s) * r_args.alpha[2] <= k * r_args.alpha[1] * PScale)
    /\ \E i \in 1..Len(summary) :
         /\ ~IsNA(summary[i].p)
         /\ KStar(SortedP(OutcomeModelGroup(i)), r_args.alpha) = 0
         /\ ~Val(summary[i].reject)

\* the (family, predictor) pairs of the predictor sets built from asym_vars
\* and dev_cols
FamilyPredictors ==
    {<<"Asymmetry", asym_vars[k]>> : k \in 1..Len(asym_vars)}
    \cup {<<"Deviation", dev_cols[k]>> : k \in 1..Len(dev_cols)}

RowsOf(o, fp) ==
    {i \in 1..Len(summary) : /\ summary[i].Outcome = o
                             /\ summary[i].Model = fp[1]
                             /\ summary[i].Target = fp[2]}

ResultComplete ==
    /\ Len(summary) = Len(r_args.outcomes) * (Len(asym_vars) + Len(dev_cols))
    /\ \A o \in Range(r_args.outcomes) : \A fp \in FamilyPredictors :
         Cardinality(RowsOf(o, fp)) = 1

\* a step of the batch, failing or not, leaves the records of the combinations
\* fitted before it as they were and adds exactly one record
BatchStepKeepsRecords ==
    (pc = "reg_family" /\ pc' = "reg_family") =>
        /\ Len(summary') = Len(summary) + 1
        /\ \A k \in 1..Len(summary) : summary'[k] = summary[k]

\* C4: the result of run_family holds exactly one record for every (outcome,
\* family, predictor) combination, |outcomes| * (sum of the family sizes)
\* records in all; a failed fit yields its record with missing statistics and
\* leaves every other record as it would have been.
C4_OneRecordPerCombination ==
    /\ [](pc = "reg_done" => ResultComplete)
    /\ [][BatchStepKeepsRecords]_vars

\* a finished batch with both families, a failed fit and a successful one
C4_Witness ==
    /\ pc = "reg_done"
    /\ asym_vars # << >> /\ dev_cols # << >>
    /\ \E i, j \in 1..Len(summary) :
         /\ i < j
         /\ IsNA(summary[i].p)
         /\ ~IsNA(summary[j].p)

----------------------------------------------------------------------------
(* neurotoolbox.robustness: the four battery functions.  The value of a
   statistic is not modelled, only whether it is computed or missing. *)

\* the least number of complete cases the battery computes on
MinCases == 3

Computed == Some("computed")

Sufficient(x, y) == Len(x) = Len(y) /\ Len(x) >= MinCases

permutation_test_corr(x, y) ==
    IF Sufficient(x, y) THEN [r_obs |-> Computed, p_perm |-> Computed, reason |-> NA]
    ELSE [r_obs |-> NA, p_perm |-> NA, reason |-> Some("insufficient data")]

bootstrap_beta(x, y) ==
    IF Sufficient(x, y)
    THEN [beta |-> Computed, ci_low |-> Computed, ci_high |-> Computed, reason |-> NA]
    ELSE [beta |-> NA, ci_low |-> NA, ci_high |-> NA, reason |-> Some("insufficient data")]

robust_regressions(x, y) ==
    IF Sufficient(x, y) THEN [fits |-> Computed, reason |-> NA]
    ELSE [fits |-> NA, reason |-> Some("insufficient data")]

nonparametric_corr(x, y) ==
    IF Sufficient(x, y) THEN [spearman_rho |-> Computed, reason |-> NA]
    ELSE [spearman_rho |-> NA, reason |-> Some("insufficient data")]

----------------------------------------------------------------------------
(* run_followups.py main() *)

FolRows == [x : {NA, Some(1), Some(2)}, y : {NA, Some(1)}, g : {NA, Some("m")}]

\* line 33: the columns selected before dropna()
UseColumns(group) == {"x", "y"} \cup (IF group THEN {"g"} ELSE {})

\* DataFrame.dropna(): the rows with a value in every selected column
DropNa(df, cols) == SelectSeq([i \in 1..Len(df) |-> i], LAMBDA i : \A c \in cols : ~IsNA(df[i][c]))

\* use[col].values.astype(float)
ColumnValues(df, rows, col) == [k \in 1..Len(rows) |-> Val(df[rows[k]][col])]

InitFollowups ==
    /\ pc = "fol_select"
    /\ log = << >>
    /\ AsymIdle
    /\ RegIdle
    /\ CorrIdle
    /\ MvIdle
    /\ NetIdle
    /\ f_args \in [group : BOOLEAN]
    /\ f_df \in SeqsUpTo(FolRows, MaxFolRows)
    /\ use = << >>
    /\ f_xy = << >>
    /\ f_res = << >>
    /\ f_files = {}

\* line 33
SelectCompleteCases ==
    /\ pc = "fol_select"
    /\ use' = DropNa(f_df, UseColumns(f_args.group))
    /\ pc' = "fol_guard"
    /\ UNCHANGED <<log, f_args, f_df, f_xy, f_res, f_files, asymVars, regVars, corrVars, mvVars, netVars>>

\* lines 34-36
NoCompleteCases ==
    /\ pc = "fol_guard"
    /\ use = << >>
    /\ log' = Append(log, <<"error", "No complete cases">>)
    /\ pc' = "exit"
    /\ UNCHANGED <<f_args, f_df, use, f_xy, f_res, f_files, asymVars, regVars, corrVars, mvVars, netVars>>

\* lines 34, 38-39
TakeVectors ==
    /\ pc = "fol_guard"
    /\ use # << >>
    /\ f_xy' = [x |-> ColumnValues(f_df, use, "x"), y |-> ColumnValues(f_df, use, "y")]
    /\ pc' = "fol_battery"
    /\ UNCHANGED <<log, f_args, f_df, use, f_res, f_files, asymVars, regVars, corrVars, mvVars, netVars>>

\* lines 41-48: of each result the script keeps the statistics
RunBattery ==
    /\ pc = "fol_battery"
    /\ f_res' = [r_obs |-> permutation_test_corr(f_xy.x, f_xy.y).r_obs,
                 p_perm |-> permutation_test_corr(f_xy.x, f_xy.y).p_perm,
                 boot_CI_low |-> bootstrap_beta(f_xy.x, f_xy.y).ci_low,
                 boot_CI_high |-> bootstrap_beta(f_xy.x, f_xy.y).ci_high,
                 fits |-> robust_regressions(f_xy.x, f_xy.y).fits,
                 spearman_rho |-> nonparametric_corr(f_xy.x, f_xy.y).spearman_rho]
    /\ pc' = "fol_write"
    /\ UNCHANGED <<log, f_args, f_df, use, f_xy, f_files, asymVars, regVars, corrVars, mvVars, netVars>>

\* lines 50-58
WriteSummary ==
    /\ pc = "fol_write"
    /\ f_files' = f_files \cup {"Followup_Summary.csv"}
    /\ pc' = "fol_plot"
    /\ UNCHANGED <<log, f_args, f_df, use, f_xy, f_res, asymVars, regVars, corrVars, mvVars, netVars>>

\* lines 60-81: the scatter, by group when --group was given, the OLS line
\* through the vectors of lines 38-39, and the final log line
PlotAndFinish ==
    /\ pc = "fol_plot"
    /\ f_files' = f_files \cup {"Scatter_with_OLS.png"}
    /\ log' = Append(log, <<"info", "Done">>)
    /\ pc' = "exit"
    /\ UNCHANGED <<f_args, f_df, use, f_xy, f_res, asymVars, regVars, corrVars, mvVars, netVars>>

NextFollowups ==
    \/ SelectCompleteCases
    \/ NoCompleteCases
    \/ TakeVectors
    \/ RunBattery
    \/ WriteSummary
    \/ PlotAndFinish

SpecFollowups == InitFollowups /\ [][NextFollowups]_vars

\* the rows of the dataset in which both x and y have a value
CompleteCases == DropNa(f_df, {"x", "y"})

StatisticsComputed ==
    /\ f_res # << >>
    /\ \E k \in DOMAIN f_res : ~IsNA(f_res[k])

\* C9: with fewer than MinCases complete (x, y) cases, none included, the run
\* ends having reported an insufficient-data condition and without an
\* exception; the statistics are computed only with MinCases cases or more.
C9_InsufficientDataReported ==
    /\ (Len(CompleteCases) < MinCases) =>
          /\ pc # "raised"
          /\ pc = "exit" => \E k \in 1..Len(log) : log[k][1] = "error"
    /\ StatisticsComputed => Len(CompleteCases) >= MinCases

\* C10: the vectors handed to the battery are the x and the y of the rows in
\* which both have a value, in dataset order, with --group or without.
C10_GroupOnlyStratifies ==
    f_xy # << >> =>
        /\ f_xy.x = ColumnValues(f_df, CompleteCases, "x")
        /\ f_xy.y = ColumnValues(f_df, CompleteCases, "y")

----------------------------------------------------------------------------
(* run_multivariate.py main(), lines 19-57 *)

MvRows == [roi : BOOLEAN, items : BOOLEAN, covars : BOOLEAN]

RowNumbers(df) == [i \in 1..Len(df) |-> i]

\* neurotoolbox.multivariate.residualize_columns followed by dropna(): a row
\* has residuals when its ROI values and its covariates are all present
ResidualizedRows(df) == SelectSeq(RowNumbers(df), LAMBDA i : df[i].roi /\ df[i].covars)

\* df[args.rois].copy().dropna()
RoiRows(df) == SelectSeq(RowNumbers(df), LAMBDA i : df[i].roi)

\* df.loc[roi_df.index, args.items].dropna()
ItemRows(df, idx) == SelectSeq(idx, LAMBDA i : df[i].items)

\* Index.intersection
Intersection(idx1, idx2) == SelectSeq(idx1, LAMBDA i : Contains(idx2, i))

InitMultivariate ==
    /\ pc = "mv_select"
    /\ log = << >>
    /\ AsymIdle
    /\ RegIdle
    /\ CorrIdle
    /\ FolIdle
    /\ NetIdle
    /\ m_args \in [residualize : BOOLEAN, covars : BOOLEAN, do_cca : BOOLEAN]
    /\ m_df \in SeqsUpTo(MvRows, MaxMvRows)
    /\ roi_idx = << >>
    /\ items_idx = << >>
    /\ pls_out = << >>

\* lines 35-40
SelectRoiMatrix ==
    /\ pc = "mv_select"
    /\ IF m_args.residualize /\ m_args.covars
       THEN /\ log' = Append(log, <<"info", "Residualizing">>)
            /\ roi_idx' = ResidualizedRows(m_df)
       ELSE /\ log' = log
            /\ roi_idx' = RoiRows(m_df)
    /\ pc' = "mv_align"
    /\ UNCHANGED <<m_args, m_df, items_idx, pls_out,
                   asymVars, regVars, corrVars, folVars, netVars>>

\* lines 43-46
AlignItems ==
    /\ pc = "mv_align"
    /\ LET items == ItemRows(m_df, roi_idx)
           common_idx == Intersection(roi_idx, items)
       IN  /\ roi_idx' = common_idx
           /\ items_idx' = common_idx
    /\ pc' = "mv_pls"
    /\ UNCHANGED <<log, m_args, m_df, pls_out,
                   asymVars, regVars, corrVars, folVars, netVars>>

\* lines 49-51; run_pls on matrices without rows is a failure of the call
RunPls ==
    /\ pc = "mv_pls"
    /\ IF roi_idx = << >>
       THEN /\ log' = Append(log, <<"info", "Running PLS...">>)
            /\ pls_out' = pls_out
            /\ pc' = "raised"
       ELSE /\ log' = log \o << <<"info", "Running PLS...">>, <<"info", "PLS r, p">> >>
            /\ pls_out' = [r |-> Computed, p |-> Computed]
            /\ pc' = "mv_cca_test"
    /\ UNCHANGED <<m_args, m_df, roi_idx, items_idx,
                   asymVars, regVars, corrVars, folVars, netVars>>

\* line 54: the condition reads the attribute args.do, which argparse never
\* sets (the flag --do-cca is stored as args.do_cca): AttributeError, with the
\* flag given or not.  No statement after line 54 is reached.
TestDoCca ==
    /\ pc = "mv_cca_test"
    /\ pc' = "raised"
    /\ UNCHANGED <<log, mvVars, asymVars, regVars, corrVars, folVars, netVars>>

NextMultivariate == SelectRoiMatrix \/ AlignItems \/ RunPls \/ TestDoCca

SpecMultivariate == InitMultivariate /\ [][NextMultivariate]_vars

RunEnded == pc \in {"raised", "exit"}

\* C6: once the PLS step has completed, with --do-cca or without, the run
\* does not end before it has computed the structural covariance matrix, the
\* FDR edges, the graph, the node and global metrics and logged 'Done'.
C6_NetworkRunsAfterPls ==
    (RunEnded /\ pls_out # << >>) =>
        /\ n_edges # << >>
        /\ n_graph # << >>
        /\ n_metrics # << >>
        /\ \E k \in 1..Len(log) : log[k] = <<"info", "Done">>

----------------------------------------------------------------------------
(* neurotoolbox.networks *)

\* the unordered pairs of measurements, each once
RoiPairsOf(rois) ==
    SelectSeq([k \in 1..(Len(rois) * Len(rois)) |->
                  <<((k - 1) \div Len(rois)) + 1, ((k - 1) % Len(rois)) + 1>>],
              LAMBDA ij : ij[1] < ij[2])

\* fdr_edges: the procedure of add_corrections over all the pairs at once
fdr_edges(rois, pvals, alpha) ==
    LET pairs == RoiPairsOf(rois)
        recs == [k \in 1..Len(pairs) |->
                   [a |-> rois[pairs[k][1]], b |-> rois[pairs[k][2]], p |-> pvals[pairs[k]]]]
        ranks == RanksFrom(recs, 1, {})
    IN  [k \in 1..Len(recs) |->
           [a |-> recs[k].a, b |-> recs[k].b, p |-> recs[k].p,
            keep |-> /\ ~IsNA(recs[k].p)
                     /\ ranks[k] <= LargestRank(recs, ranks, GroupRows(recs, k, {}), alpha)]]

\* build_graph: the nodes are the endpoints of the rows it is given, the
\* edges the rows with keep set
build_graph(edges) ==
    [nodes |-> {edges[k].a : k \in 1..Len(edges)} \cup {edges[k].b : k \in 1..Len(edges)},
     edges |-> {{edges[k].a, edges[k].b} : k \in {l \in 1..Len(edges) : edges[l].keep}}]

\* node_metrics: the degree of every node of the graph
node_metrics(G) == [v \in G.nodes |-> Cardinality({e \in G.edges : v \in e})]

----------------------------------------------------------------------------
(* run_multivariate.py main(), lines 59-73, from a matrix roi_df with rows *)

RoiNames == [k \in 1..MaxRois |-> <<"roi", k>>]

\* line 68: edges[edges["keep"]]
KeptRows(edges) == SelectSeq(edges, LAMBDA e : e.keep)

InitNetwork ==
    /\ pc = "net_cov"
    /\ log = << >>
    /\ AsymIdle
    /\ RegIdle
    /\ CorrIdle
    /\ FolIdle
    /\ MvIdle
    /\ n_rois \in {SubSeq(RoiNames, 1, n) : n \in 1..MaxRois}
    /\ n_pvals \in [Range(RoiPairsOf(n_rois)) -> {NA, Some(0), Some(PScale - 1)}]
    /\ n_alpha \in Alphas
    /\ n_edges = << >>
    /\ n_graph = << >>
    /\ n_metrics = << >>

\* lines 60-63
StructuralCovariance ==
    /\ pc = "net_cov"
    /\ log' = Append(log, <<"info", "Computing structural covariance">>)
    /\ pc' = "net_edges"
    /\ UNCHANGED <<netVars, asymVars, regVars, corrVars, folVars, mvVars>>

\* lines 65-66
FdrEdges ==
    /\ pc = "net_edges"
    /\ n_edges' = fdr_edges(n_rois, n_pvals, n_alpha)
    /\ pc' = "net_graph"
    /\ UNCHANGED <<log, n_rois, n_pvals, n_alpha, n_graph, n_metrics,
                   asymVars, regVars, corrVars, folVars, mvVars>>

\* lines 68-69
BuildGraph ==
    /\ pc = "net_graph"
    /\ n_graph' = build_graph(KeptRows(n_edges))
    /\ pc' = "net_metrics"
    /\ UNCHANGED <<log, n_rois, n_pvals, n_alpha, n_edges, n_metrics,
                   asymVars, regVars, corrVars, folVars, mvVars>>

\* lines 70-73
MetricsAndFinish ==
    /\ pc = "net_metrics"
    /\ n_metrics' = [node |-> node_metrics(n_graph), global |-> Computed]
    /\ log' = Append(log, <<"info", "Done">>)
    /\ pc' = "exit"
    /\ UNCHANGED <<n_rois, n_pvals, n_alpha, n_edges, n_graph,
                   asymVars, regVars, corrVars, folVars, mvVars>>

NextNetwork == StructuralCovariance \/ FdrEdges \/ BuildGraph \/ MetricsAndFinish

SpecNetwork == InitNetwork /\ [][NextNetwork]_vars

KeptEdges == {{n_edges[k].a, n_edges[k].b} : k \in {l \in 1..Len(n_edges) : n_edges[l].keep}}

====
